---- MODULE Spec2Model ----
(***************************************************************************)
(* Model of the burn bot (src/index.js): process start-up (validateConfig, *)
(* the BurnBot constructor, the SIGTERM handler), the interval timer, and  *)
(* executeCycle with buyTokens and burnTokens, one action per resumption   *)
(* of an async function (the code between two awaits runs to completion).  *)
(*                                                                         *)
(* Units.  Native amounts held by the program (solBalance, buyAmount,      *)
(* MIN_SOL_BALANCE, totalSolSpent) are JS numbers in SOL; the model holds  *)
(* them as integers counting 0.001 SOL.  The ledger holds lamports.  Token *)
(* amounts held by the program (tokenBalance, totalTokensBurned) are JS    *)
(* numbers; the model holds a number x as the integer x * Frac, so that a  *)
(* number with a fractional part is representable and Math.floor is not    *)
(* the identity.  The ledger holds raw (whole) token units.                *)
(***************************************************************************)
EXTENDS Integers, Sequences, FiniteSets, TLC

\* ------------------------------------------------------------------ bounds
\* Cycles the model lets start: the first one (start's) and the timer's.
MaxCycles == 3
\* A JS number x about tokens is held as x * Frac.
Frac == 2

\* ------------------------------------------------------- program constants
\* balance / 1e9
LAMPORTS_PER_SOL == 1000000000
\* the 0.005 SOL of Math.max(solBalance - 0.005, 0.001), in 0.001 SOL
FEE_RESERVE == 5
\* the 0.001 SOL of Math.max(solBalance - 0.005, 0.001), in 0.001 SOL
MIN_BUY == 1
\* parseFloat(process.env.MIN_SOL_BALANCE || '0.005'), in 0.001 SOL
DEFAULT_MIN_SOL_BALANCE == 5

\* Lamports in 0.001 SOL.
LamportsPerMilli == LAMPORTS_PER_SOL \div 1000

Max(a, b) == IF a >= b THEN a ELSE b

Cycles == 1..MaxCycles

VARIABLES
    env,          \* process.env as CONFIG reads it (fixed at start)
    mainPc,       \* where main() is
    exitCode,     \* "running", or the status process.exit was called with
    connection,   \* this.connection has been constructed
    wallet,       \* this.wallet has been loaded
    sigterm,      \* the SIGTERM handler is registered
    timerArmed,   \* setInterval has been called
    stats,        \* this.stats
    printed,      \* what the SIGTERM handler printed: <<>> or <<stats>>
    cyc,          \* per executeCycle call: its position and its locals
    effect,       \* per executeCycle call: what its steps changed in stats
    networkUsed,  \* a request has been sent to the RPC endpoint or the API
    solLamports,  \* ledger: the wallet's native balance
    ata           \* ledger: the wallet's associated token account

vars == <<env, mainPc, exitCode, connection, wallet, sigterm, timerArmed,
          stats, printed, cyc, effect, networkUsed, solLamports, ata>>

\* ------------------------------------------------------------ configuration
\* CONFIG (lines 8-14).  key/mint: "missing" (unset or empty), or set and
\* either usable or not; rpc: whether new Connection accepts the URL.
MinBalanceChoices == {0, DEFAULT_MIN_SOL_BALANCE}

Configs ==
    [key : {"missing", "malformed", "valid"},
     mint : {"missing", "invalid", "valid"},
     rpc : {"invalid", "valid"},
     minSol : MinBalanceChoices]

InitialMilliSol == {3, 10}

InitialAta ==
    {[exists |-> FALSE, amount |-> 0],
     [exists |-> TRUE, amount |-> 1]}

\* this.stats as the constructor sets it (lines 21-27).  lastBurnTime: 0 is
\* null; otherwise the instant of the update, named by the cycle that made it.
NewStats ==
    [totalBurns |-> 0, totalTokensBurned |-> 0, totalSolSpent |-> 0,
     startTime |-> "set", lastBurnTime |-> 0]

NoStats ==
    [totalBurns |-> 0, totalTokensBurned |-> 0, totalSolSpent |-> 0,
     startTime |-> "unset", lastBurnTime |-> 0]

\* The locals of one executeCycle call, before it starts, with what the call
\* did: buyCalls and burnCalls count its calls of buyTokens and burnTokens,
\* buyArg is the argument of buyTokens, ataSeen and tokenRaw are what the
\* ledger held when getTokenBalance asked, burnIx is the amount of the burn
\* instruction, burnBroadcast and burnSent say that the burn transaction was
\* handed to sendRawTransaction and that it executed, overlapped says that
\* another call was in flight at some time during this one.
IdleCycle ==
    [pc |-> "idle", outcome |-> "none",
     balanceThrew |-> FALSE, solBalance |-> 0, passedMin |-> FALSE,
     buyAmount |-> 0, buyCalls |-> 0, buyArg |-> 0, buyResult |-> "none",
     burnCalls |-> 0, ataSeen |-> "none", tokenRaw |-> 0, tokenThrew |-> FALSE,
     tokenBalance |-> 0, burnIx |-> 0, burnBroadcast |-> FALSE,
     burnSent |-> FALSE, burnResult |-> "none", burnAmount |-> 0,
     overlapped |-> FALSE]

NoEffect == [burns |-> 0, tokens |-> 0, sol |-> 0, stamped |-> FALSE]

Init ==
    /\ env \in Configs
    /\ mainPc = "validateConfig"
    /\ exitCode = "running"
    /\ connection = FALSE
    /\ wallet = FALSE
    /\ sigterm = FALSE
    /\ timerArmed = FALSE
    /\ stats = NoStats
    /\ printed = <<>>
    /\ cyc = [c \in Cycles |-> IdleCycle]
    /\ effect = [c \in Cycles |-> NoEffect]
    /\ networkUsed = FALSE
    /\ solLamports \in {m * LamportsPerMilli : m \in InitialMilliSol}
    /\ ata \in InitialAta

\* ------------------------------------------------------------------ start-up
\* Mutant of Running: process.exit returns and the program goes on.
Running_Always == TRUE

Running == exitCode = "running"

\* process.exit(status): nothing of the program runs after it; mainPc stays
\* where main was.
Exit(status) ==
    /\ exitCode' = status
    /\ UNCHANGED mainPc

\* Mutant of MissingKeys: TOKEN_MINT_ADDRESS left out of `required`.
MissingKeys_OnlyKey(e) ==
    {k \in {"key"} : e[k] = "missing"}

\* validateConfig's `missing` (lines 253-254).
MissingKeys(e) ==
    {k \in {"key", "mint"} : e[k] = "missing"}

\* validateConfig (lines 252-262), called first by main (line 273).
ValidateConfig ==
    /\ Running /\ mainPc = "validateConfig"
    /\ IF MissingKeys(env) # {}
         THEN Exit("1")
         ELSE /\ mainPc' = "newConnection"
              /\ UNCHANGED exitCode
    /\ UNCHANGED <<env, connection, wallet, sigterm, timerArmed, stats, printed,
                   cyc, effect, networkUsed, solLamports, ata>>

\* The constructor's first statement (line 18).  new Connection throws on an
\* endpoint that is no http(s) URL; the throw leaves main and reaches
\* main().catch (lines 287-290).
NewConnection ==
    /\ Running /\ mainPc = "newConnection"
    /\ IF env.rpc = "invalid"
         THEN Exit("1") /\ UNCHANGED connection
         ELSE /\ connection' = TRUE
              /\ mainPc' = "loadWallet"
              /\ UNCHANGED exitCode
    /\ UNCHANGED <<env, wallet, sigterm, timerArmed, stats, printed,
                   cyc, effect, networkUsed, solLamports, ata>>

\* What loadWallet's catch block does (lines 35-39).
WalletFailure == "exit1"

\* Mutant of LoadWalletResult: the catch block logs and returns.
LoadWalletResult_NoExit(key) == "ok"

\* loadWallet (lines 30-40): "ok" when bs58.decode and Keypair.fromSecretKey
\* return, else what the catch block does.
LoadWalletResult(key) ==
    IF key = "valid" THEN "ok" ELSE WalletFailure

\* The constructor's second statement (line 19).
LoadWallet ==
    /\ Running /\ mainPc = "loadWallet"
    /\ IF LoadWalletResult(env.key) = "ok"
         THEN /\ wallet' = TRUE
              /\ mainPc' = "newPublicKey"
              /\ UNCHANGED exitCode
         ELSE Exit("1") /\ UNCHANGED wallet
    /\ UNCHANGED <<env, connection, sigterm, timerArmed, stats, printed,
                   cyc, effect, networkUsed, solLamports, ata>>

\* The rest of the constructor (lines 20-27): new PublicKey throws on an
\* address that is no public key, and the throw reaches main().catch.
NewPublicKey ==
    /\ Running /\ mainPc = "newPublicKey"
    /\ IF env.mint = "valid"
         THEN /\ stats' = NewStats
              /\ mainPc' = "registerSigterm"
              /\ UNCHANGED exitCode
         ELSE Exit("1") /\ UNCHANGED stats
    /\ UNCHANGED <<env, connection, wallet, sigterm, timerArmed, printed,
                   cyc, effect, networkUsed, solLamports, ata>>

\* process.on('SIGTERM', ...) (lines 278-282).
RegisterSigterm ==
    /\ Running /\ mainPc = "registerSigterm"
    /\ sigterm' = TRUE
    /\ mainPc' = "start"
    /\ UNCHANGED <<env, exitCode, connection, wallet, timerArmed, stats, printed,
                   cyc, effect, networkUsed, solLamports, ata>>

\* The SIGTERM handler (lines 278-282).  Handlers run only when the running
\* code has yielded: main is at an await, or has returned.
Sigterm ==
    /\ Running /\ sigterm
    /\ mainPc \in {"firstCycle", "running"}
    /\ printed' = <<stats>>
    /\ Exit("0")
    /\ UNCHANGED <<env, connection, wallet, sigterm, timerArmed, stats,
                   cyc, effect, networkUsed, solLamports, ata>>

\* ------------------------------------------------------------ pure helpers
\* getBalance (lines 48-56) on the RPC's reply: lamports / 1e9, in 0.001 SOL;
\* 0 when connection.getBalance threw.
GetBalance(reply) ==
    IF reply.threw THEN 0 ELSE reply.lamports \div LamportsPerMilli

\* Mutant of BalanceTooLow: the threshold is not used.
BalanceTooLow_Zero(solBalance, minSol) == solBalance <= 0

\* solBalance < CONFIG.MIN_SOL_BALANCE (line 180).
BalanceTooLow(solBalance, minSol) == solBalance < minSol

\* Mutant of BuyAmount: the fee reserve is not subtracted.
BuyAmount_NoReserve(solBalance) == Max(solBalance, MIN_BUY)

\* Math.max(solBalance - 0.005, 0.001) (line 186).
BuyAmount(solBalance) == Max(solBalance - FEE_RESERVE, MIN_BUY)

\* buyAmount <= 0 (line 188).
NothingUsable(buyAmount) == buyAmount <= 0

\* parseFloat of the RPC's amount string (line 66): the raw unit count as a
\* JS number.
ParseFloat(amount) == amount * Frac

\* Math.floor (line 144) of a JS number.
MathFloor(x) == (x \div Frac) * Frac

\* BigInt (line 144) of a whole JS number.
BigInt(x) == x \div Frac

\* Mutant of TokenBalanceCaught: the catch block rethrows.
TokenBalanceCaught_Rethrow == [threw |-> TRUE, value |-> 0]

\* What getTokenBalance's catch block returns (lines 67-70).
TokenBalanceCaught == [threw |-> FALSE, value |-> 0]

\* getTokenBalance (lines 58-71) on the RPC's reply.
GetTokenBalance(reply) ==
    IF reply.threw
      THEN TokenBalanceCaught
      ELSE [threw |-> FALSE, value |-> ParseFloat(reply.amount)]

\* Mutant of NoTokens: burnTokens goes on whatever the balance is.
NoTokens_Never(tokenBalance) == FALSE

\* tokenBalance === 0 (line 127).
NoTokens(tokenBalance) == tokenBalance = 0

\* Mutant of BurnIxAmount: the burn leaves one raw unit in the account.
BurnIxAmount_KeepOne(tokenBalance) == BigInt(MathFloor(tokenBalance)) - 1

\* Mutant of BurnIxAmount: one unit more than the floor.
BurnIxAmount_OffByOne(tokenBalance) == BigInt(MathFloor(tokenBalance)) + 1

\* The amount of the burn instruction, in raw units (lines 140-145).
BurnIxAmount(tokenBalance) == BigInt(MathFloor(tokenBalance))

\* Mutant of BuyFailed: the result of buyTokens is not checked.
BuyFailed_Never(buyResult) == FALSE

\* !buyResult.success (line 196).
BuyFailed(buyResult) == buyResult # "success"

\* Mutant of BurnFailed: the result of burnTokens is not checked.
BurnFailed_Never(burnResult) == FALSE

\* !burnResult.success (line 207).
BurnFailed(burnResult) == burnResult # "success"

\* Mutant of UpdateStats: the two amounts are added to each other's total.
UpdateStats_Swapped(s, burnAmount, buyAmount, now) ==
    [s EXCEPT !.totalBurns = @ + 1,
              !.totalTokensBurned = @ + buyAmount,
              !.totalSolSpent = @ + burnAmount,
              !.lastBurnTime = now]

\* Mutant of UpdateStats: the three counters move, lastBurnTime does not.
UpdateStats_NoStamp(s, burnAmount, buyAmount, now) ==
    [s EXCEPT !.totalBurns = @ + 1,
              !.totalTokensBurned = @ + burnAmount,
              !.totalSolSpent = @ + buyAmount]

\* The statistics update (lines 213-216); `now` is new Date().
UpdateStats(s, burnAmount, buyAmount, now) ==
    [s EXCEPT !.totalBurns = @ + 1,
              !.totalTokensBurned = @ + burnAmount,
              !.totalSolSpent = @ + buyAmount,
              !.lastBurnTime = now]

\* ------------------------------------------------------------ executeCycle
\* What a step of call c changed in this.stats, added to what its earlier
\* steps changed.
Observe(c) ==
    effect' = [effect EXCEPT ![c] =
        [burns |-> @.burns + (stats'.totalBurns - stats.totalBurns),
         tokens |-> @.tokens + (stats'.totalTokensBurned - stats.totalTokensBurned),
         sol |-> @.sol + (stats'.totalSolSpent - stats.totalSolSpent),
         stamped |-> @.stamped \/ stats'.lastBurnTime # stats.lastBurnTime]]

\* Call c goes on to its next await with locals r.
Step(c, r) ==
    /\ cyc' = [cyc EXCEPT ![c] = r]
    /\ UNCHANGED <<mainPc, timerArmed>>

\* Mutant of Return: a call that did not complete throws to its caller, so
\* start, awaiting call 1, never reaches setInterval.
Return_FailureThrows(c, r) ==
    /\ cyc' = [cyc EXCEPT ![c] = [r EXCEPT !.pc = "done"]]
    /\ IF c = 1 /\ r.outcome = "complete"
         THEN mainPc' = "running" /\ timerArmed' = TRUE
         ELSE UNCHANGED <<mainPc, timerArmed>>

\* executeCycle call c returns.  Call 1 is the one start awaits (line 242):
\* start resumes and calls setInterval (lines 245-247), and main returns.
Return(c, r) ==
    /\ cyc' = [cyc EXCEPT ![c] = [r EXCEPT !.pc = "done"]]
    /\ IF c = 1
         THEN mainPc' = "running" /\ timerArmed' = TRUE
         ELSE UNCHANGED <<mainPc, timerArmed>>

\* executeCycle call c has started and has not returned.
InFlight(c) == cyc[c].pc \notin {"idle", "done"}

\* executeCycle is called (lines 172-177): it runs to getBalance's await.
StartCycle(c) ==
    /\ cyc' = [d \in Cycles |->
                 IF d = c
                   THEN [cyc[c] EXCEPT
                           !.pc = "getBalance",
                           !.overlapped = \E e \in Cycles \ {c} : InFlight(e)]
                   ELSE IF InFlight(d)
                     THEN [cyc[d] EXCEPT !.overlapped = TRUE]
                     ELSE cyc[d]]
    /\ networkUsed' = TRUE

\* Mutant of Start: the first executeCycle call is not awaited, and
\* setInterval is called at once.
Start_NoAwait ==
    /\ Running /\ mainPc = "start"
    /\ StartCycle(1)
    /\ mainPc' = "running"
    /\ timerArmed' = TRUE
    /\ UNCHANGED <<env, exitCode, connection, wallet, sigterm,
                   stats, printed, effect, solLamports, ata>>

\* bot.start() (lines 233-242), called by main (line 284).
Start ==
    /\ Running /\ mainPc = "start"
    /\ StartCycle(1)
    /\ mainPc' = "firstCycle"
    /\ UNCHANGED <<env, exitCode, connection, wallet, sigterm, timerArmed,
                   stats, printed, effect, solLamports, ata>>

\* Mutant of TimerTick: the callback skips the tick while a call is running.
TimerTick_Guarded ==
    /\ Running /\ timerArmed
    /\ \A e \in Cycles : ~InFlight(e)
    /\ \E c \in Cycles :
         /\ cyc[c].pc = "idle"
         /\ \A d \in 1..(c - 1) : cyc[d].pc # "idle"
         /\ StartCycle(c)
    /\ UNCHANGED <<env, mainPc, exitCode, connection, wallet, sigterm,
                   timerArmed, stats, printed, effect, solLamports, ata>>

\* The interval callback (lines 245-247): it calls executeCycle whatever
\* the earlier calls are doing.
TimerTick ==
    /\ Running /\ timerArmed
    /\ \E c \in Cycles :
         /\ cyc[c].pc = "idle"
         /\ \A d \in 1..(c - 1) : cyc[d].pc # "idle"
         /\ StartCycle(c)
    /\ UNCHANGED <<env, mainPc, exitCode, connection, wallet, sigterm,
                   timerArmed, stats, printed, effect, solLamports, ata>>

\* Ledger: the raw token units a buy of solAmount delivers (the pool's price
\* is taken as fixed: one raw unit per 0.001 SOL).
TokensBought(solAmount) == solAmount

\* buyTokens has returned buyResult to executeCycle (lines 194-202).
AfterBuy(c, r) ==
    IF BuyFailed(r.buyResult)
      THEN Return(c, [r EXCEPT !.outcome = "buyFailed"])
      ELSE Step(c, [r EXCEPT !.pc = "settleSleep"])

\* buyTokens' catch block (lines 117-120), then executeCycle.
BuyCaught(c) ==
    AfterBuy(c, [cyc[c] EXCEPT !.buyResult = "failure"])

\* connection.getBalance has answered call c: lines 50-56, then 177-194 up
\* to buyTokens' fetch (lines 74-93).
GetBalanceReturn(c) ==
    /\ Running /\ cyc[c].pc = "getBalance"
    /\ \E threw \in BOOLEAN :
         LET reply == [threw |-> threw, lamports |-> solLamports]
             solBalance == GetBalance(reply)
             buyAmount == BuyAmount(solBalance)
             r0 == [cyc[c] EXCEPT !.balanceThrew = threw,
                                  !.solBalance = solBalance]
             r1 == [r0 EXCEPT !.passedMin = TRUE, !.buyAmount = buyAmount]
         IN  IF BalanceTooLow(solBalance, env.minSol)
               THEN Return(c, [r0 EXCEPT !.outcome = "lowBalance"])
               ELSE IF NothingUsable(buyAmount)
                 THEN Return(c, [r1 EXCEPT !.outcome = "noFunds"])
                 ELSE Step(c, [r1 EXCEPT !.pc = "fetch",
                                         !.buyCalls = @ + 1,
                                         !.buyArg = buyAmount])
    /\ UNCHANGED <<env, exitCode, connection, wallet, sigterm, stats, printed,
                   networkUsed, solLamports, ata>>
    /\ Observe(c)

\* The trading API has answered (lines 78-106): the request threw, the
\* status was not OK, the body was no transaction, or the transaction was
\* decoded, signed and handed to sendRawTransaction.
FetchReturn(c) ==
    /\ Running /\ cyc[c].pc = "fetch"
    /\ \E http \in {"throws", "notOk", "badBody", "ok"} :
         IF http = "ok"
           THEN Step(c, [cyc[c] EXCEPT !.pc = "buySend"])
           ELSE BuyCaught(c)
    /\ UNCHANGED <<env, exitCode, connection, wallet, sigterm, stats, printed,
                   networkUsed, solLamports, ata>>
    /\ Observe(c)

\* sendRawTransaction has answered for the buy (lines 104-109): it threw
\* (the preflight simulation fails when the wallet cannot pay), or the
\* transaction was accepted, and then either executed (the wallet pays
\* buyAmount, the token account receives tokens) or failed on chain (the
\* slippage limit, say).
BuySendReturn(c) ==
    /\ Running /\ cyc[c].pc = "buySend"
    /\ \/ /\ BuyCaught(c)
          /\ UNCHANGED <<solLamports, ata>>
       \/ /\ solLamports >= cyc[c].buyArg * LamportsPerMilli
          /\ ata' = [exists |-> TRUE,
                      amount |-> ata.amount + TokensBought(cyc[c].buyArg)]
          /\ solLamports' = solLamports - cyc[c].buyArg * LamportsPerMilli
          /\ Step(c, [cyc[c] EXCEPT !.pc = "buyConfirm"])
       \/ /\ Step(c, [cyc[c] EXCEPT !.pc = "buyConfirm"])
          /\ UNCHANGED <<solLamports, ata>>
    /\ UNCHANGED <<env, exitCode, connection, wallet, sigterm, stats, printed,
                   networkUsed>>
    /\ Observe(c)

\* confirmTransaction has answered for the buy (lines 109-114): it threw,
\* or it returned (its value is not read) and the 2 s timer is set.
BuyConfirmReturn(c) ==
    /\ Running /\ cyc[c].pc = "buyConfirm"
    /\ \/ BuyCaught(c)
       \/ Step(c, [cyc[c] EXCEPT !.pc = "buySleep"])
    /\ UNCHANGED <<env, exitCode, connection, wallet, sigterm, stats, printed,
                   networkUsed, solLamports, ata>>
    /\ Observe(c)

\* The 2 s timer has fired (lines 114-116): buyTokens returns success, and
\* executeCycle sets the 3 s timer (line 202).
BuySleepReturn(c) ==
    /\ Running /\ cyc[c].pc = "buySleep"
    /\ AfterBuy(c, [cyc[c] EXCEPT !.buyResult = "success"])
    /\ UNCHANGED <<env, exitCode, connection, wallet, sigterm, stats, printed,
                   networkUsed, solLamports, ata>>
    /\ Observe(c)

\* The 3 s timer has fired (lines 202-205): burnTokens is called and runs
\* to getTokenBalance's RPC request (lines 124-125, 59-65).
SettleSleepReturn(c) ==
    /\ Running /\ cyc[c].pc = "settleSleep"
    /\ Step(c, [cyc[c] EXCEPT !.pc = "getTokenBalance",
                                !.burnCalls = @ + 1])
    /\ UNCHANGED <<env, exitCode, connection, wallet, sigterm, stats, printed,
                   networkUsed, solLamports, ata>>
    /\ Observe(c)

\* burnTokens has returned burnResult to executeCycle (lines 205-216).
AfterBurn(c, r) ==
    IF BurnFailed(r.burnResult)
      THEN /\ Return(c, [r EXCEPT !.outcome = "burnFailed"])
           /\ UNCHANGED stats
      ELSE /\ stats' = UpdateStats(stats, r.burnAmount, r.buyAmount, c)
           /\ Return(c, [r EXCEPT !.outcome = "complete"])

\* burnTokens returns { success: false } (lines 127-130, 165-168).
BurnFails(c, r) ==
    AfterBurn(c, [r EXCEPT !.burnResult = "failure"])

\* getTokenAccountBalance has answered (lines 65-70, 125-150): it throws
\* when the account does not exist or the request fails.  burnTokens then
\* returns a failure on 0, or builds the instruction and asks for a
\* blockhash.
GetTokenBalanceReturn(c) ==
    /\ Running /\ cyc[c].pc = "getTokenBalance"
    /\ \E rpcFails \in BOOLEAN :
         LET reply == IF ata.exists /\ ~rpcFails
                        THEN [threw |-> FALSE, amount |-> ata.amount]
                        ELSE [threw |-> TRUE, amount |-> 0]
             ret == GetTokenBalance(reply)
             r0 == [cyc[c] EXCEPT
                      !.ataSeen = IF ata.exists THEN "present" ELSE "absent",
                      !.tokenRaw = ata.amount,
                      !.tokenThrew = ret.threw,
                      !.tokenBalance = ret.value]
         IN  IF ret.threw \/ NoTokens(ret.value)
               THEN BurnFails(c, r0)
               ELSE /\ Step(c, [r0 EXCEPT !.pc = "blockhash",
                                          !.burnIx = BurnIxAmount(ret.value)])
                    /\ UNCHANGED stats
    /\ UNCHANGED <<env, exitCode, connection, wallet, sigterm, printed,
                   networkUsed, solLamports, ata>>
    /\ Observe(c)

\* getLatestBlockhash has answered (lines 150-158): it threw, or the
\* transaction is signed and handed to sendRawTransaction.
BlockhashReturn(c) ==
    /\ Running /\ cyc[c].pc = "blockhash"
    /\ \/ BurnFails(c, cyc[c])
       \/ /\ Step(c, [cyc[c] EXCEPT !.pc = "burnSend",
                                      !.burnBroadcast = TRUE])
          /\ UNCHANGED stats
    /\ UNCHANGED <<env, exitCode, connection, wallet, sigterm, printed,
                   networkUsed, solLamports, ata>>
    /\ Observe(c)

\* sendRawTransaction has answered for the burn (lines 155-160): it threw
\* (the simulation fails when the account holds less than the amount), or
\* the burn executed.
BurnSendReturn(c) ==
    /\ Running /\ cyc[c].pc = "burnSend"
    /\ \/ /\ BurnFails(c, cyc[c])
          /\ UNCHANGED ata
       \/ /\ ata.exists /\ ata.amount >= cyc[c].burnIx
          /\ ata' = [ata EXCEPT !.amount = @ - cyc[c].burnIx]
          /\ Step(c, [cyc[c] EXCEPT !.pc = "burnConfirm", !.burnSent = TRUE])
          /\ UNCHANGED stats
    /\ UNCHANGED <<env, exitCode, connection, wallet, sigterm, printed,
                   networkUsed, solLamports>>
    /\ Observe(c)

\* confirmTransaction has answered for the burn (lines 160-168): it threw,
\* or burnTokens returns { success: true, amount: tokenBalance }.
BurnConfirmReturn(c) ==
    /\ Running /\ cyc[c].pc = "burnConfirm"
    /\ \/ BurnFails(c, cyc[c])
       \/ AfterBurn(c, [cyc[c] EXCEPT !.burnResult = "success",
                                      !.burnAmount = cyc[c].tokenBalance])
    /\ UNCHANGED <<env, exitCode, connection, wallet, sigterm, printed,
                   networkUsed, solLamports, ata>>
    /\ Observe(c)

\* ------------------------------------------------------------ specification
Next ==
    \/ ValidateConfig
    \/ NewConnection
    \/ LoadWallet
    \/ NewPublicKey
    \/ RegisterSigterm
    \/ Start
    \/ TimerTick
    \/ Sigterm
    \/ \E c \in Cycles : GetBalanceReturn(c)
    \/ \E c \in Cycles : FetchReturn(c)
    \/ \E c \in Cycles : BuySendReturn(c)
    \/ \E c \in Cycles : BuyConfirmReturn(c)
    \/ \E c \in Cycles : BuySleepReturn(c)
    \/ \E c \in Cycles : SettleSleepReturn(c)
    \/ \E c \in Cycles : GetTokenBalanceReturn(c)
    \/ \E c \in Cycles : BlockhashReturn(c)
    \/ \E c \in Cycles : BurnSendReturn(c)
    \/ \E c \in Cycles : BurnConfirmReturn(c)

Spec == Init /\ [][Next]_vars

\* ------------------------------------------------------------------ claims
\* Call c has read the native balance.
BalanceRead(c) == cyc[c].pc \notin {"idle", "getBalance"}

\* C1: a cycle whose balance read is below MIN_SOL_BALANCE has returned
\* without calling buyTokens or burnTokens, and none of its steps changed
\* this.stats.
C1_LowBalanceNoBuy ==
    \A c \in Cycles :
        (BalanceRead(c) /\ cyc[c].solBalance < env.minSol) =>
            /\ cyc[c].pc = "done"
            /\ cyc[c].buyCalls = 0
            /\ cyc[c].burnCalls = 0
            /\ effect[c] = NoEffect

\* The scenario balance 0.003, MIN_SOL_BALANCE 0.005: the cycle has returned.
C1_Witness ==
    \E c \in Cycles :
        /\ cyc[c].pc = "done" /\ ~cyc[c].balanceThrew
        /\ cyc[c].solBalance = 3 /\ env.minSol = 5

\* C2: when buyTokens has reported a failure to a cycle, the cycle has
\* returned, never called burnTokens, and none of its steps changed any field
\* of this.stats.
C2_BuyFailureSkipsBurn ==
    \A c \in Cycles :
        cyc[c].buyResult = "failure" =>
            /\ cyc[c].pc = "done"
            /\ cyc[c].burnCalls = 0
            /\ effect[c] = NoEffect

\* A buy has failed in a cycle while the statistics already count a burn.
C2_Witness ==
    \E c \in Cycles :
        /\ cyc[c].buyResult = "failure" /\ cyc[c].buyCalls = 1
        /\ stats.totalBurns > 0

\* C3: when buyTokens succeeded and burnTokens reported a failure, the cycle
\* has returned having changed nothing in this.stats, it called buyTokens and
\* burnTokens once each (no retry, no compensation), and the interval timer
\* is armed.
C3_BurnFailureLeavesStats ==
    \A c \in Cycles :
        (cyc[c].buyResult = "success" /\ cyc[c].burnResult = "failure") =>
            /\ cyc[c].pc = "done"
            /\ effect[c] = NoEffect
            /\ cyc[c].buyCalls = 1 /\ cyc[c].burnCalls = 1
            /\ timerArmed

\* A burn transaction was broadcast and burnTokens still reported a failure.
C3_Witness ==
    \E c \in Cycles :
        /\ cyc[c].buyResult = "success" /\ cyc[c].burnResult = "failure"
        /\ cyc[c].burnBroadcast

\* C4: a cycle in which buyTokens and burnTokens both reported success added
\* exactly 1 to totalBurns, the amount of its burn instruction to
\* totalTokensBurned and its buyAmount to totalSolSpent, and set
\* lastBurnTime.
C4_SuccessUpdatesStats ==
    \A c \in Cycles :
        (cyc[c].buyResult = "success" /\ cyc[c].burnResult = "success") =>
            /\ effect[c].burns = 1
            /\ effect[c].tokens = cyc[c].burnIx * Frac
            /\ effect[c].sol = cyc[c].buyArg
            /\ effect[c].stamped
            /\ stats.lastBurnTime # 0

\* Two cycles have completed, and one of them burned more tokens than its
\* own buy delivered.
C4_Witness ==
    /\ stats.totalBurns = 2
    /\ \E c \in Cycles :
         /\ cyc[c].burnResult = "success"
         /\ cyc[c].burnIx > TokensBought(cyc[c].buyArg)

\* C5: a cycle that passed the minimum-balance check with
\* solBalance - 0.005 <= 0 returns without calling buyTokens.
C5_NothingUsableAborts ==
    \A c \in Cycles :
        (cyc[c].passedMin /\ cyc[c].solBalance - FEE_RESERVE <= 0) =>
            /\ cyc[c].pc = "done"
            /\ cyc[c].buyCalls = 0

\* C6: whenever a cycle has called buyTokens, the argument is the larger of
\* solBalance - 0.005 and 0.001 for the balance the cycle read; with balance
\* 0.01 it is 0.005.
C6_BuyAmountIsMax ==
    \A c \in Cycles :
        cyc[c].buyCalls > 0 =>
            /\ cyc[c].buyArg >= cyc[c].solBalance - FEE_RESERVE
            /\ cyc[c].buyArg >= MIN_BUY
            /\ cyc[c].buyArg \in {cyc[c].solBalance - FEE_RESERVE, MIN_BUY}
            /\ (cyc[c].solBalance = 10 => cyc[c].buyArg = 5)

\* The scenario balance 0.01, MIN_SOL_BALANCE 0.005: buyTokens called with
\* 0.005; and a call with the 0.001 floor.
C6_Witness ==
    /\ env.minSol = 5
    /\ \E c \in Cycles :
         cyc[c].buyCalls = 1 /\ cyc[c].solBalance = 10 /\ cyc[c].buyArg = 5
    /\ \E c \in Cycles :
         cyc[c].buyCalls = 1 /\ cyc[c].buyArg = MIN_BUY

\* No executeCycle call has started and no request has been sent.
NothingStarted ==
    /\ \A c \in Cycles : cyc[c].pc = "idle"
    /\ ~networkUsed

\* main is before the constructor's line 20.
BeforeWalletLoaded ==
    mainPc \in {"validateConfig", "newConnection", "loadWallet"}

\* The process has exited in loadWallet: decoding the secret threw.
WalletDecodeExit == exitCode # "running" /\ mainPc = "loadWallet"

\* C7 as stated: when decoding the wallet secret throws, the process exits
\* with status 1 before the Connection is constructed, and no cycle starts.
C7_ExitBeforeConnection ==
    WalletDecodeExit =>
        /\ exitCode = "1"
        /\ ~connection
        /\ NothingStarted

\* C7 as amended: when decoding the wallet secret throws, the process exits
\* with status 1 in loadWallet, with the Connection constructed but before
\* any request is sent, and no cycle ever starts.
C7_ExitBeforeNetworkUse ==
    /\ WalletDecodeExit =>
           /\ exitCode = "1"
           /\ connection
           /\ NothingStarted
    /\ env.key # "valid" =>
           /\ BeforeWalletLoaded
           /\ ~wallet
           /\ NothingStarted

\* The process has exited with status 1 on a secret that does not decode.
C7_Witness ==
    /\ WalletDecodeExit /\ exitCode = "1"
    /\ env.key = "malformed"

\* C8: with CREATOR_PRIVATE_KEY or TOKEN_MINT_ADDRESS missing, main never
\* leaves validateConfig: the only exit status is 1, the bot is not
\* constructed, the SIGTERM handler is not registered, no cycle starts and no
\* request is sent.  An exit before main reached start's await (an error that
\* left main) has status 1.
C8_MissingConfigExits ==
    /\ (env.key = "missing" \/ env.mint = "missing") =>
           /\ mainPc = "validateConfig"
           /\ exitCode \in {"running", "1"}
           /\ ~connection /\ ~wallet /\ stats = NoStats
           /\ ~sigterm
           /\ NothingStarted
    /\ (exitCode # "running" /\ mainPc \notin {"firstCycle", "running"}) =>
           exitCode = "1"

\* The process has exited with status 1 in validateConfig on a missing
\* TOKEN_MINT_ADDRESS.
C8_Witness ==
    /\ exitCode = "1" /\ mainPc = "validateConfig"
    /\ env.key = "valid" /\ env.mint = "missing"

\* C9: when the associated token account does not exist, getTokenBalance
\* returns 0 and does not throw.
C9_AbsentAccountIsZero ==
    \A c \in Cycles :
        cyc[c].ataSeen = "absent" =>
            /\ ~cyc[c].tokenThrew
            /\ cyc[c].tokenBalance = 0

\* getTokenBalance has returned for an account that does not exist.
C9_Witness ==
    \E c \in Cycles :
        /\ cyc[c].ataSeen = "absent" /\ ~ata.exists
        /\ cyc[c].burnResult = "failure"

\* C10: whenever burnTokens has broadcast a burn transaction, the amount of
\* the burn instruction is the floor of the balance getTokenBalance returned
\* at the start of that call: a whole number of raw units, at most the
\* balance and less than one unit below it.
C10_BurnAmountIsFloor ==
    \A c \in Cycles :
        cyc[c].burnBroadcast =>
            /\ cyc[c].burnIx * Frac <= cyc[c].tokenBalance
            /\ cyc[c].tokenBalance < (cyc[c].burnIx + 1) * Frac
            /\ cyc[c].burnIx <= cyc[c].tokenRaw

\* A burn of more than one raw unit has executed.
C10_Witness ==
    \E c \in Cycles :
        /\ cyc[c].burnSent /\ cyc[c].burnIx > 1
        /\ cyc[c].tokenBalance = cyc[c].tokenRaw * Frac

\* C11: when connection.getBalance throws, getBalance returns 0 and the cycle
\* calls neither buyTokens nor burnTokens, whatever MIN_SOL_BALANCE is.
C11_FailedReadNoAction ==
    \A c \in Cycles :
        cyc[c].balanceThrew =>
            /\ cyc[c].solBalance = 0
            /\ cyc[c].buyCalls = 0
            /\ cyc[c].burnCalls = 0

\* The executeCycle calls made so far.
Started == {c \in Cycles : cyc[c].pc # "idle"}

\* C12: start calls executeCycle once, at once; setInterval is called only
\* when that first call has returned; from then on the interval callback can
\* fire and start one new call as long as the process runs.
C12_FirstCycleThenTimer ==
    /\ mainPc \notin {"firstCycle", "running"} => (Started = {} /\ ~timerArmed)
    /\ mainPc = "firstCycle" => (Started = {1} /\ InFlight(1) /\ ~timerArmed)
    /\ mainPc = "running" => timerArmed
    /\ timerArmed => cyc[1].pc = "done"
    /\ \A c \in Started : \A d \in 1..(c - 1) : d \in Started
    /\ (Running /\ timerArmed /\ Started # Cycles) => ENABLED TimerTick

\* The first call has returned and the timer has started two more.
C12_Witness ==
    /\ cyc[1].pc = "done" /\ timerArmed
    /\ {2, 3} \subseteq Started

\* C13: every executeCycle call that has ended has returned normally with
\* one of its outcomes; the timer is then armed and, while the process runs,
\* the interval callback can still start the next call; no error reaches
\* main().catch once start has been called.
C13_CycleNeverKillsLoop ==
    /\ \A c \in Cycles :
         cyc[c].pc = "done" =>
             /\ cyc[c].outcome \in
                    {"lowBalance", "noFunds", "buyFailed", "burnFailed", "complete"}
             /\ timerArmed
             /\ (Running /\ Started # Cycles) => ENABLED TimerTick
    /\ mainPc \in {"firstCycle", "running"} => exitCode # "1"

\* After a failed buy and a failed burn the timer has started another call.
C13_Witness ==
    /\ cyc[1].outcome = "buyFailed"
    /\ cyc[2].outcome = "burnFailed"
    /\ cyc[3].pc = "getBalance"

\* C14: nothing makes a tick wait for the previous call: while a call
\* started by the timer is still running, the callback can start the next
\* one, so two executeCycle calls can be in flight at once.
C14_TickDuringCycle ==
    \A c \in Cycles :
        (c > 1 /\ InFlight(c) /\ Running /\ Started # Cycles)
            => ENABLED TimerTick

\* Two calls started by the timer are in flight at the same time.
C14_Witness ==
    /\ InFlight(2) /\ InFlight(3)
    /\ cyc[2].overlapped /\ cyc[3].overlapped

\* A call is waiting on the trade API's HTTP reply or on confirmTransaction.
Pending(c) == cyc[c].pc \in {"fetch", "buyConfirm", "burnConfirm"}

\* No step starts a call that has not started yet.
NoCycleStarts ==
    \A d \in Cycles : cyc[d].pc = "idle" => cyc'[d].pc = "idle"

\* C15 as stated: while any call's HTTP request or confirmation wait is
\* pending, no subsequent call of executeCycle starts.
C15_PendingCallStallsLoop ==
    [][(\E c \in Cycles : Pending(c)) => NoCycleStarts]_vars

\* C15, amended: while the HTTP request or confirmation wait of the call
\* that start awaits (the first one) is pending, no subsequent call starts.
C15_PendingFirstCallStallsLoop ==
    [][Pending(1) => NoCycleStarts]_vars

\* The first call is waiting for a confirmation and the timer is not armed.
C15_Witness ==
    /\ Running /\ cyc[1].pc = "buyConfirm"
    /\ ~timerArmed
    /\ Started = {1}

\* C16: wherever the program waits after start was called, the SIGTERM
\* handler can run; once it has, the statistics printed are the current
\* ones, the exit status is 0 and no step of the program follows, so a call
\* of executeCycle that was in flight does nothing more.
C16_SigtermExitsAtOnce ==
    /\ (Running /\ mainPc \in {"firstCycle", "running"}) => ENABLED Sigterm
    /\ exitCode = "0" =>
         /\ sigterm
         /\ printed = <<stats>>
         /\ ~ENABLED Next

\* The process was stopped between a confirmed buy and the burn: the tokens
\* are in the wallet and the statistics printed do not count them.
C16_Witness ==
    /\ exitCode = "0"
    /\ \E c \in Cycles :
         /\ cyc[c].buyResult = "success"
         /\ cyc[c].pc = "settleSleep"
         /\ cyc[c].burnCalls = 0
    /\ \A c \in Cycles : cyc[c].outcome # "complete"
    /\ ata.exists /\ ata.amount > 0
    /\ printed = <<NewStats>>

\* The calls of executeCycle that ended in full success.
Completed == {c \in Cycles : cyc[c].outcome = "complete"}

RECURSIVE SumOver(_, _)
SumOver(S, f) ==
    IF S = {} THEN 0
    ELSE LET c == CHOOSE x \in S : TRUE IN f[c] + SumOver(S \ {c}, f)

\* The four fields of s all account for exactly the calls in Completed.
StatsReflect(s) ==
    /\ s.totalBurns = Cardinality(Completed)
    /\ s.totalTokensBurned = SumOver(Completed, [c \in Cycles |-> cyc[c].burnAmount])
    /\ s.totalSolSpent = SumOver(Completed, [c \in Cycles |-> cyc[c].buyAmount])
    /\ (s.lastBurnTime # 0) <=> (s.totalBurns > 0)
    /\ s.lastBurnTime # 0 => s.lastBurnTime \in Completed

\* C17: in every state between two steps of the program, where the SIGTERM
\* handler or another call of executeCycle can run, totalBurns,
\* totalTokensBurned, totalSolSpent and lastBurnTime account for the same
\* set of fully successful calls, and so does what the handler printed.
C17_StatsUpdateAtomic ==
    /\ StatsReflect(stats)
    /\ printed # <<>> => StatsReflect(printed[1])

\* Two calls have updated the statistics while a third, overlapping one is
\* still in flight.
C17_Witness ==
    /\ Cardinality(Completed) = 2
    /\ stats.totalBurns = 2
    /\ \E c \in Cycles : InFlight(c) /\ cyc[c].overlapped

\* C18: when getTokenBalance gave burnTokens 0, because the account is empty
\* or absent or because the query failed, burnTokens has returned a failure
\* result to executeCycle: no burn instruction was built, nothing was handed
\* to sendRawTransaction, and the call ended as a failed burn, not by a throw.
C18_ZeroBalanceFailsBurn ==
    \A c \in Cycles :
        (cyc[c].ataSeen # "none" /\ cyc[c].tokenBalance = 0) =>
            /\ ~cyc[c].tokenThrew
            /\ cyc[c].burnResult = "failure"
            /\ cyc[c].burnIx = 0
            /\ ~cyc[c].burnBroadcast
            /\ ~cyc[c].burnSent
            /\ cyc[c].pc = "done" /\ cyc[c].outcome = "burnFailed"
            /\ effect[c] = NoEffect

\* The query failed although the account holds tokens, and the tokens are
\* still there after burnTokens returned.
C18_Witness ==
    \E c \in Cycles :
        /\ cyc[c].ataSeen = "present" /\ cyc[c].tokenRaw > 0
        /\ cyc[c].tokenBalance = 0
        /\ cyc[c].burnResult = "failure"
        /\ ata.amount >= cyc[c].tokenRaw

\* Call c is the latest one started and no other call was in flight at any
\* time during it.
RanAlone(c) ==
    /\ ~cyc[c].overlapped
    /\ \A d \in Cycles : d > c => cyc[d].pc = "idle"

\* C19: the burn instruction a call builds is for the whole token balance
\* the account held when getTokenBalance asked, whoever bought it; a fully
\* successful call adds that whole balance to totalTokensBurned; and once
\* the burn of a call that ran alone has executed, the account holds 0.
C19_BurnTakesWholeBalance ==
    \A c \in Cycles :
        /\ cyc[c].burnBroadcast => cyc[c].burnIx = cyc[c].tokenRaw
        /\ cyc[c].outcome = "complete" =>
               effect[c].tokens = ParseFloat(cyc[c].tokenRaw)
        /\ (cyc[c].burnSent /\ RanAlone(c)) => ata.amount = 0

\* An earlier call bought and failed to burn; a later call, running alone,
\* burned its own purchase together with the leftover and counted both.
C19_Witness ==
    \E c \in Cycles : \E d \in 1..(c - 1) :
        /\ cyc[d].buyResult = "success" /\ cyc[d].burnResult = "failure"
        /\ cyc[c].outcome = "complete" /\ RanAlone(c)
        /\ cyc[c].tokenRaw >=
               TokensBought(cyc[d].buyArg) + TokensBought(cyc[c].buyArg)
        /\ effect[c].tokens = ParseFloat(cyc[c].tokenRaw)
        /\ ata.amount = 0

\* The calls whose buyTokens returned success: their buys are confirmed.
ConfirmedBuys == {c \in Cycles : cyc[c].buyResult = "success"}

\* C20: totalSolSpent never exceeds the sum of the amounts of the confirmed
\* buys (a confirmed buy whose call did not end in full success is not
\* counted).
C20_SolSpentAtMostConfirmedBuys ==
    stats.totalSolSpent <=
        SumOver(ConfirmedBuys, [c \in Cycles |-> cyc[c].buyArg])

\* Two overlapping calls both bought; the burn of one destroyed the tokens
\* of both, the other's burnTokens found 0 and failed: two confirmed buys,
\* one burn counted, and totalSolSpent is the amount of one buy only.
C20_Witness ==
    \E c \in Cycles : \E d \in Cycles \ {c} :
        /\ cyc[c].overlapped /\ cyc[d].overlapped
        /\ ConfirmedBuys = {c, d}
        /\ cyc[c].outcome = "complete"
        /\ cyc[c].tokenRaw >=
               TokensBought(cyc[c].buyArg) + TokensBought(cyc[d].buyArg)
        /\ cyc[d].pc = "done" /\ cyc[d].outcome = "burnFailed"
        /\ cyc[d].ataSeen = "present" /\ cyc[d].tokenRaw = 0
        /\ ~cyc[d].tokenThrew /\ cyc[d].tokenBalance = 0
        /\ stats.totalBurns = 1
        /\ stats.totalSolSpent = cyc[c].buyArg
        /\ stats.totalSolSpent < cyc[c].buyArg + cyc[d].buyArg

====
